---- MODULE Spec2Model ----
(***************************************************************************)
(* stm32ctl: host-side driver of the STM32 system bootloader.              *)
(*                                                                         *)
(* The model follows one session: create_client (connect, wake handshake,  *)
(* get-commands), then Client operations invoked either by async_main      *)
(* (a queue of actions, closed in a finally) or directly by a library      *)
(* caller.  Every await on the serial endpoint (write, read) is one step.  *)
(* `log` records the bytes that crossed the transport during the current   *)
(* call (create_client, or one Client operation).                          *)
(***************************************************************************)
EXTENDS Integers, Sequences, FiniteSets, TLC

VARIABLES
    args,      \* Args of the session (port, baudrate, skip_init, log), who runs
               \* it (via_main) and the global options it was started with (argv)
    dev,       \* the attached device: what it reports and how it answers
    serial,    \* the serial endpoint: "none", "open", "broken", "closed"
    pc,        \* position of the caller task
    meth,      \* the Connection method in flight
    todo,      \* remaining transport steps of the Connection method in flight
    loc,       \* locals of the Connection method in flight
    cur,       \* locals of the Client operation in flight
    log,       \* transport events of the current call
    outcome,   \* how the last call ended
    client,    \* Client._version, Client._cmd_types
    queue,     \* async_main: args.actions not yet started
    calls,     \* async_main: Client calls of the current action not yet started
    nops,      \* library caller: number of operations invoked so far
    unacked,   \* frames written whose acknowledgment byte has not been read yet
    tasks,     \* two tasks on one Client: the call and position of each task
    link       \* two tasks on one Client: bytes the device has sent, not yet read

vars == <<args, dev, serial, pc, meth, todo, loc, cur, log, outcome, client,
          queue, calls, nops, unacked, tasks, link>>

----------------------------------------------------------------------------
(* Bounds of the model *)

\* number of operations a library caller invokes on one session
MaxOps == 2

\* number of actions on the async_main command line
MaxActions == 2

\* largest transfer size tried by Client.read / Client.write
MaxSize == 513

----------------------------------------------------------------------------
(* Wire constants *)

GET_COMMANDS == 0
GET_PROTECTION == 1
GET_CHIP_ID == 2
READ == 17
EXECUTE == 33
WRITE == 49
ERASE == 67
ERASE_EXTENDED == 68
SPECIAL == 80
SPECIAL_EXTENDED == 81
PROTECT_READ == 130
UNPROTECT_READ == 146
PROTECT_WRITE == 99
UNPROTECT_WRITE == 115
CHECK_CRC == 161

CmdType ==
    {GET_COMMANDS, GET_PROTECTION, GET_CHIP_ID, READ, EXECUTE, WRITE, ERASE,
     ERASE_EXTENDED, SPECIAL, SPECIAL_EXTENDED, PROTECT_READ, UNPROTECT_READ,
     PROTECT_WRITE, UNPROTECT_WRITE, CHECK_CRC}

WAKE == 127
ACK == 121
NACK == 31
SEGMENT == 256
ERASE_ALL == 255
MAX_PAGES == 255
DEVICE_ID_ADDRESS == 536868840
DEVICE_ID_SIZE == 12
FLASH_SIZE_ADDRESS == 536868832
FLASH_SIZE_SIZE == 2
KIB == 1024
FLASH_BASE == 134217728

----------------------------------------------------------------------------
(* Byte arithmetic *)

Min(a, b) == IF a < b THEN a ELSE b

RECURSIVE xor(_, _)
\* Python's a ^ b on non-negative integers
xor(a, b) ==
    IF a = 0 THEN b
    ELSE IF b = 0 THEN a
    ELSE (((a % 2) + (b % 2)) % 2) + (2 * xor(a \div 2, b \div 2))

\* Python's 0xFF & x (x of either sign, two's complement)
and_ff(x) == x % 256

\* Python's ~x
invert(x) == (0 - x) - 1

RECURSIVE crc_run(_, _, _, _)
\* the for loop of _get_data_with_checksum over data[i..j]:
\* crc = 0xFF & (crc ^ i) for each item in turn (crc is a byte throughout)
crc_run(data, i, j, crc) ==
    IF crc \in 0..255 /\ i > j THEN crc
    ELSE crc_run(data, i + 1, j, and_ff(xor(crc, data[i])))

RECURSIVE crc_loop(_, _, _)
\* the same loop over data[i..], taken sixteen items at a time so that the
\* depth of the recursion stays within TLC's evaluation stack
crc_loop(data, i, crc) ==
    IF crc \in 0..255 /\ i > Len(data) THEN crc
    ELSE crc_loop(data, i + 16, crc_run(data, i, Min(i + 15, Len(data)), crc))

\* get_data_with_checksum with a fault: a body of one byte gets the plain XOR
get_data_with_checksum_plain(data) ==
    data \o <<crc_loop(data, 1, 0)>>

\* _get_data_with_checksum: the bytes the generator yields (body, then crc)
get_data_with_checksum(data) ==
    LET count == Len(data)
        crc == crc_loop(data, 1, 0)
    IN data \o <<IF count < 2 THEN and_ff(invert(crc)) ELSE crc>>

\* struct.pack('>I', x)
pack_I(x) ==
    <<(x \div 16777216) % 256, (x \div 65536) % 256, (x \div 256) % 256, x % 256>>

RECURSIVE from_bytes_big(_)
\* int.from_bytes(b, byteorder='big')
from_bytes_big(b) ==
    IF b = <<>> THEN 0
    ELSE (256 * from_bytes_big(SubSeq(b, 1, Len(b) - 1))) + b[Len(b)]

\* unpack_H with a fault: the two bytes are taken most significant first
unpack_H_big(b) == (256 * b[1]) + b[2]

\* struct.unpack('<H', b)[0]
unpack_H(b) == b[1] + (256 * b[2])

----------------------------------------------------------------------------
(* Transport steps of the Connection methods *)

WriteStep(body, bytes) == [t |-> "write", body |-> body, bytes |-> bytes, n |-> 0, tag |-> ""]
AckStep == [t |-> "ack", body |-> <<>>, bytes |-> <<>>, n |-> 1, tag |-> "ack"]
ReadStep(n, tag) == [t |-> "read", body |-> <<>>, bytes |-> <<>>, n |-> n, tag |-> tag]
RaiseStep(exc) == [t |-> "raise", body |-> <<>>, bytes |-> <<>>, n |-> 0, tag |-> exc]

\* bytes(...) accepts only values in range(0, 256)
IsBytes(data) == \A i \in DOMAIN data : data[i] \in 0..255

\* send with a fault: the frame is written and its ACK is not waited for
send_no_ack(data) ==
    IF data = <<>> \/ ~IsBytes(data)
    THEN <<RaiseStep("ValueError")>>
    ELSE <<WriteStep(data, get_data_with_checksum(data))>>

\* Connection._send: frame the body, write it, wait for its ACK
send(data) ==
    IF data = <<>> \/ ~IsBytes(data)
    THEN <<RaiseStep("ValueError")>>
    ELSE <<WriteStep(data, get_data_with_checksum(data)), AckStep>>

\* connect_steps with a fault: skip_init is not looked at
connect_steps_always_wake(skip_init) ==
    <<WriteStep(<<>>, <<WAKE>>), AckStep>>

\* connect: the wake handshake that follows serial.create
connect_steps(skip_init) ==
    IF skip_init THEN <<>>
    ELSE <<WriteStep(<<>>, <<WAKE>>), AckStep>>

\* Connection.get_commands (the length of the third read is the count read)
get_commands_steps ==
    send(<<GET_COMMANDS>>)
    \o <<ReadStep(1, "count"), ReadStep(1, "version"), ReadStep(0, "cmds"), AckStep>>

\* Connection.get_chip_id (the length of the second read is count + 1)
get_chip_id_steps ==
    send(<<GET_CHIP_ID>>) \o <<ReadStep(1, "count"), ReadStep(0, "chip_id"), AckStep>>

\* Connection_read with a fault: an ACK is read after the data
Connection_read_trailing_ack(start_address, size) ==
    IF size > SEGMENT THEN <<RaiseStep("ValueError")>>
    ELSE send(<<READ>>) \o send(pack_I(start_address)) \o send(<<size - 1>>)
         \o <<ReadStep(size, "data"), AckStep>>

\* Connection.read
Connection_read(start_address, size) ==
    IF size > SEGMENT THEN <<RaiseStep("ValueError")>>
    ELSE send(<<READ>>) \o send(pack_I(start_address)) \o send(<<size - 1>>)
         \o <<ReadStep(size, "data")>>

\* Connection_write with a fault: the length byte travels in a frame of its own
Connection_write_separate_length(start_address, data) ==
    LET size == Len(data)
    IN IF size > SEGMENT \/ size < 1 THEN <<RaiseStep("ValueError")>>
       ELSE send(<<WRITE>>) \o send(pack_I(start_address)) \o send(<<size - 1>>)
            \o send(data)

\* Connection.write
Connection_write(start_address, data) ==
    LET size == Len(data)
    IN IF size > SEGMENT \/ size < 1 THEN <<RaiseStep("ValueError")>>
       ELSE send(<<WRITE>>) \o send(pack_I(start_address)) \o send(<<size - 1>> \o data)

\* Connection.execute
Connection_execute(start_address) ==
    send(<<EXECUTE>>) \o send(pack_I(start_address))

\* Connection_erase with a fault: the page list is sorted before it is sent
Connection_erase_sorted(all, pages) ==
    IF ~all /\ (Len(pages) < 1 \/ Len(pages) > MAX_PAGES)
    THEN <<RaiseStep("ValueError")>>
    ELSE send(<<ERASE>>)
         \o (IF all THEN send(<<ERASE_ALL>>)
             ELSE send(<<Len(pages) - 1>> \o SortSeq(pages, LAMBDA a, b : a < b)))

\* Connection.erase (all = TRUE stands for pages=None)
Connection_erase(all, pages) ==
    IF ~all /\ (Len(pages) < 1 \/ Len(pages) > MAX_PAGES)
    THEN <<RaiseStep("ValueError")>>
    ELSE send(<<ERASE>>)
         \o (IF all THEN send(<<ERASE_ALL>>) ELSE send(<<Len(pages) - 1>> \o pages))

\* Connection.erase_extended
erase_extended_steps == <<RaiseStep("NotImplementedError")>>

\* Connection.special
special_steps == <<RaiseStep("NotImplementedError")>>

\* Connection.special_extended
special_extended_steps == <<RaiseStep("NotImplementedError")>>

\* Connection.check_crc
check_crc_steps == <<RaiseStep("NotImplementedError")>>

\* protect_read_steps with a fault: no ACK is read after the one of the frame
protect_read_steps_single_ack == send(<<PROTECT_READ>>)

\* Connection.protect_read
protect_read_steps == send(<<PROTECT_READ>>) \o <<AckStep>>

\* Connection.unprotect_read
unprotect_read_steps == send(<<UNPROTECT_READ>>) \o <<AckStep>>

\* protect_write_steps with a fault: the opcode is sent as for unprotect_write
protect_write_steps_sending == send(<<PROTECT_WRITE>>) \o <<AckStep>>

\* Connection.protect_write
protect_write_steps == <<RaiseStep("NotImplementedError")>>

\* Connection.unprotect_write
unprotect_write_steps == send(<<UNPROTECT_WRITE>>) \o <<AckStep>>

\* receive_ack with a fault: a NACK is passed over and the operation goes on
receive_ack_passing_nack(res) ==
    IF res # <<ACK>> /\ res # <<NACK>>
    THEN [ok |-> FALSE, msg |-> "received unknown response", byte |-> res[1]]
    ELSE [ok |-> TRUE, msg |-> "", byte |-> -1]

\* receive_ack with a fault: every byte other than ACK is taken for a NACK
receive_ack_nack_only(res) ==
    IF res # <<ACK>>
    THEN [ok |-> FALSE, msg |-> "received NACK", byte |-> -1]
    ELSE [ok |-> TRUE, msg |-> "", byte |-> -1]

\* Connection._receive_ack, on the byte string read: how it ends
receive_ack(res) ==
    IF res = <<NACK>>
    THEN [ok |-> FALSE, msg |-> "received NACK", byte |-> -1]
    ELSE IF res # <<ACK>>
    THEN [ok |-> FALSE, msg |-> "received unknown response", byte |-> res[1]]
    ELSE [ok |-> TRUE, msg |-> "", byte |-> -1]

----------------------------------------------------------------------------
(* The device at the other end of the link *)

\* content of the device memory at an address; the two bytes of the flash
\* size register are those of the attached device
Mem(a) ==
    IF a = FLASH_SIZE_ADDRESS THEN dev.flash[1]
    ELSE IF a = FLASH_SIZE_ADDRESS + 1 THEN dev.flash[2]
    ELSE a % 251

\* what the bootloader reports: supported commands, version, product id,
\* and the content of its flash size register
DeviceProfiles ==
    {[cmds |-> <<GET_COMMANDS, GET_PROTECTION, GET_CHIP_ID, READ, EXECUTE, WRITE,
                 ERASE, PROTECT_WRITE, UNPROTECT_WRITE, PROTECT_READ,
                 UNPROTECT_READ>>, version |-> 34, chip |-> <<4, 16>>,
      flash |-> <<255, 1>>],
     [cmds |-> <<GET_COMMANDS, GET_CHIP_ID, READ>>, version |-> 34, chip |-> <<4, 16>>,
      flash |-> <<0, 4>>],
     [cmds |-> <<GET_COMMANDS, GET_CHIP_ID>>, version |-> 16, chip |-> <<4, 16>>,
      flash |-> <<128, 0>>],
     [cmds |-> <<GET_COMMANDS, READ, PROTECT_WRITE>>, version |-> 16, chip |-> <<4, 19>>,
      flash |-> <<0, 4>>],
     [cmds |-> <<GET_COMMANDS, 153, READ>>, version |-> 34, chip |-> <<4, 16>>,
      flash |-> <<64, 0>>]}

\* bytes the device may put into an ACK slot
AckSlotBytes == {ACK, NACK, 0}

WriteEvent(step) ==
    [k |-> "w", slot |-> IF step.body = <<>> THEN "raw" ELSE "frame",
     body |-> step.body, bytes |-> step.bytes]
ReadEvent(slot, bytes) == [k |-> "r", slot |-> slot, body |-> <<>>, bytes |-> bytes]

Writes(lg) == SelectSeq(lg, LAMBDA e : e.k = "w")

\* the memory range the device serves after a read command: it decodes the
\* address frame and the size frame the host has written last
dev_memory_read(lg) ==
    LET w == Writes(lg)
        address == from_bytes_big(SubSeq(w[Len(w) - 1].bytes, 1, 4))
        count == w[Len(w)].bytes[1] + 1
    IN [i \in 1..count |-> Mem(address + i - 1)]

\* the bytes a transport read of n bytes returns
dev_response(tag, n, lg, m) ==
    LET all == CASE tag = "count" /\ m = "get_commands" -> <<Len(dev.cmds)>>
                 [] tag = "count" /\ m = "get_chip_id" -> <<Len(dev.chip) - 1>>
                 [] tag = "version" -> <<dev.version>>
                 [] tag = "cmds" -> dev.cmds
                 [] tag = "chip_id" -> dev.chip
                 [] tag = "data" -> dev_memory_read(lg)
    IN SubSeq(all, 1, n)

----------------------------------------------------------------------------
(* Calls and their locals *)

NoLoc == [count |-> 0, version |-> 0, cmds |-> <<>>, data |-> <<>>]

NoOutcome == [st |-> "none", exc |-> "", msg |-> "", byte |-> -1, val |-> <<>>]

NoClient == [set |-> FALSE, version |-> 0, cmd_types |-> {}]

\* a Client call with its arguments, and the locals it starts with
Call(op, address, size, data, progress, all, pages, protection) ==
    [op |-> op, address |-> address, size |-> size, data |-> data,
     progress |-> progress, all |-> all, pages |-> pages, protection |-> protection,
     arg |-> [address |-> address, size |-> size, data |-> data],
     segments |-> <<>>, cbs |-> <<>>, done |-> 0, total |-> 0, stage |-> 0,
     chip_id |-> 0, device_id |-> <<>>]

NoCall == Call("", 0, 0, <<>>, "none", FALSE, <<>>, "")

GetInfo == Call("get_info", 0, 0, <<>>, "none", FALSE, <<>>, "")
Read(address, size, progress) == Call("read", address, size, <<>>, progress, FALSE, <<>>, "")
Write(address, data, progress) == Call("write", address, 0, data, progress, FALSE, <<>>, "")
Erase(all, pages) == Call("erase", 0, 0, <<>>, "none", all, pages, "")
Execute(address) == Call("execute", address, 0, <<>>, "none", FALSE, <<>>, "")
SetProtection(protection) == Call("set_protection", 0, 0, <<>>, "none", FALSE, <<>>, protection)

Protection == {"PROTECT_READ", "UNPROTECT_READ", "PROTECT_WRITE", "UNPROTECT_WRITE"}

\* the payload of a write of n bytes
Data(n) == [i \in 1..n |-> (i * 7 + 5) % 256]

Sizes == {0, 1, 256, 300, MaxSize}

\* the calls a library caller makes
LibCalls ==
    {GetInfo, Execute(FLASH_BASE), Erase(TRUE, <<>>), Erase(FALSE, <<3, 1, 2>>),
     Erase(FALSE, <<>>)}
    \cup {Read(FLASH_BASE, s, "rec") : s \in Sizes}
    \cup {Write(FLASH_BASE, Data(s), "rec") : s \in Sizes}
    \cup {Read(FLASH_BASE, 300, "none"), Write(FLASH_BASE, Data(300), "none")}
    \cup {SetProtection(p) : p \in Protection}

\* a page list of n entries
Pages(n) == [i \in 1..n |-> i % 256]

\* the wire operations without arguments that a caller of Connection may invoke
Unimplemented ==
    {"Connection.erase_extended", "Connection.protect_write", "Connection.special",
     "Connection.special_extended", "Connection.check_crc"}

\* the calls a caller makes on the Connection itself (wire level)
ConnCalls ==
    {Call("Connection.read", FLASH_BASE, s, <<>>, "none", FALSE, <<>>, "") :
        s \in {0, 1, SEGMENT, SEGMENT + 1}}
    \cup {Call("Connection.write", FLASH_BASE + 4660, 0, Data(n), "none", FALSE, <<>>, "") :
        n \in {0, 1, 2, SEGMENT, SEGMENT + 1}}
    \cup {Call("Connection.erase", 0, 0, <<>>, "none", FALSE, Pages(n), "") :
        n \in {0, MAX_PAGES + 1}}
    \cup {Call(op, 0, 0, <<>>, "none", FALSE, <<>>, "") : op \in Unimplemented}

\* the actions of the async_main command line
Action(kind, address, size, data, progress, all, pages, flags) ==
    [kind |-> kind, address |-> address, size |-> size, data |-> data,
     progress |-> progress, all |-> all, pages |-> pages, flags |-> flags]

MainActions ==
    {Action("info", 0, 0, <<>>, FALSE, FALSE, <<>>, {}),
     Action("read", FLASH_BASE, 300, <<>>, TRUE, FALSE, <<>>, {}),
     Action("read", FLASH_BASE, 0, <<>>, TRUE, FALSE, <<>>, {}),
     Action("write", FLASH_BASE, 0, Data(257), FALSE, FALSE, <<>>, {}),
     Action("erase", 0, 0, <<>>, FALSE, TRUE, <<>>, {}),
     Action("execute", FLASH_BASE, 0, <<>>, FALSE, FALSE, <<>>, {}),
     Action("protection", 0, 0, <<>>, FALSE, FALSE, <<>>, {"PROTECT_READ", "UNPROTECT_WRITE"}),
     Action("protection", 0, 0, <<>>, FALSE, FALSE, <<>>, {})}

\* _act_protection: one set_protection per flag, in this order
act_protection(flags) ==
    (IF "PROTECT_READ" \in flags THEN <<SetProtection("PROTECT_READ")>> ELSE <<>>)
    \o (IF "UNPROTECT_READ" \in flags THEN <<SetProtection("UNPROTECT_READ")>> ELSE <<>>)
    \o (IF "PROTECT_WRITE" \in flags THEN <<SetProtection("PROTECT_WRITE")>> ELSE <<>>)
    \o (IF "UNPROTECT_WRITE" \in flags THEN <<SetProtection("UNPROTECT_WRITE")>> ELSE <<>>)

\* the Client calls an action of async_main makes (_act_info ... _act_protection)
act_calls(a) ==
    CASE a.kind = "info" -> <<GetInfo>>
      [] a.kind = "read" ->
            <<Read(a.address, a.size, IF a.progress THEN "print" ELSE "none")>>
      [] a.kind = "write" ->
            <<Write(a.address, a.data, IF a.progress THEN "print" ELSE "none")>>
      [] a.kind = "erase" -> <<Erase(a.all, a.pages)>>
      [] a.kind = "execute" -> <<Execute(a.address)>>
      [] a.kind = "protection" -> act_protection(a.flags)

SeqsUpTo(S, n) == UNION {[1..k -> S] : k \in 0..n}

----------------------------------------------------------------------------
(* The command line *)

\* a Python str is modelled as the sequence of its characters; a value that
\* is a str or an int carries its type
PyStr(s) == [t |-> "str", s |-> s, i |-> 0]
PyInt(i) == [t |-> "int", s |-> <<>>, i |-> i]

\* the value of a character as a digit (99: not a digit in any base used)
DigitValue(ch) ==
    CASE ch = "0" -> 0 [] ch = "1" -> 1 [] ch = "2" -> 2 [] ch = "3" -> 3
      [] ch = "4" -> 4 [] ch = "5" -> 5 [] ch = "6" -> 6 [] ch = "7" -> 7
      [] ch = "8" -> 8 [] ch = "9" -> 9
      [] ch \in {"a", "A"} -> 10 [] ch \in {"b", "B"} -> 11
      [] ch \in {"c", "C"} -> 12 [] ch \in {"d", "D"} -> 13
      [] ch \in {"e", "E"} -> 14 [] ch \in {"f", "F"} -> 15
      [] OTHER -> 99

RECURSIVE digits_value(_, _)
digits_value(x, base) ==
    IF x = <<>> THEN 0
    ELSE (digits_value(SubSeq(x, 1, Len(x) - 1), base) * base) + DigitValue(x[Len(x)])

\* Python's int(x) and int(x, base=16) on a string of letters, digits and
\* "/": ok is FALSE where int raises ValueError
int(x, base) ==
    LET body == IF base = 16 /\ Len(x) >= 2 /\ SubSeq(x, 1, 2) = <<"0", "x">>
                THEN SubSeq(x, 3, Len(x)) ELSE x
    IN IF body # <<>> /\ \A i \in DOMAIN body : DigitValue(body[i]) < base
       THEN [ok |-> TRUE, val |-> digits_value(body, base)]
       ELSE [ok |-> FALSE, val |-> 0]

RECURSIVE parse_int(_)
\* _parse_int
parse_int(x) ==
    IF x # <<>> /\ x[Len(x)] = "K"
    THEN LET r == parse_int(SubSeq(x, 1, Len(x) - 1))
         IN [ok |-> r.ok, val |-> r.val * 1024]
    ELSE IF Len(x) >= 2 /\ SubSeq(x, 1, 2) = <<"0", "x">>
    THEN int(x, 16)
    ELSE int(x, 10)

\* Args(actions=[]) with its defaults; via_main and argv say who runs the
\* session and with which global options
DefaultArgs ==
    [via_main |-> FALSE, argv |-> <<>>,
     port |-> PyStr(<<"/", "d", "e", "v", "/", "t", "t", "y", "U", "S", "B", "0">>),
     baudrate |-> 115200, skip_init |-> FALSE, log |-> <<>>]

LogLevels ==
    {<<"C", "R", "I", "T", "I", "C", "A", "L">>, <<"E", "R", "R", "O", "R">>,
     <<"W", "A", "R", "N", "I", "N", "G">>, <<"I", "N", "F", "O">>,
     <<"D", "E", "B", "U", "G">>, <<"N", "O", "T", "S", "E", "T">>}

RECURSIVE parse_args_loop(_, _)
\* parse_args: the loop over the (name, value) pairs getopt has returned
parse_args_loop(result, a) ==
    IF result = <<>> THEN [exc |-> "", args |-> a]
    ELSE LET name == Head(result).name
             value == Head(result).value
         IN CASE name = "--help" -> [exc |-> "SystemExit", args |-> a]
              [] name = "--port" ->
                    LET r == parse_int(value)
                    IN IF r.ok
                       THEN parse_args_loop(Tail(result), [a EXCEPT !.port = PyInt(r.val)])
                       ELSE [exc |-> "ValueError", args |-> a]
              [] name = "--baudrate" ->
                    LET r == parse_int(value)
                    IN IF r.ok
                       THEN parse_args_loop(Tail(result), [a EXCEPT !.baudrate = r.val])
                       ELSE [exc |-> "ValueError", args |-> a]
              [] name = "--skip-init" ->
                    parse_args_loop(Tail(result), [a EXCEPT !.skip_init = TRUE])
              [] name = "--log" ->
                    IF value \notin LogLevels
                    THEN [exc |-> "SystemExit", args |-> a]
                    ELSE parse_args_loop(Tail(result), [a EXCEPT !.log = value])
              [] OTHER -> [exc |-> "ValueError", args |-> a]

Opt(name, value) == [name |-> name, value |-> value]

\* the values given to --port
Ports ==
    {<<"/", "d", "e", "v", "/", "t", "t", "y", "U", "S", "B", "1">>,
     <<"C", "O", "M", "3">>, <<"5">>, <<"0", "x", "1", "F">>}

\* the global options of the command lines tried
GlobalOptions ==
    {<<>>, <<Opt("--skip-init", <<>>)>>}
    \cup {<<Opt("--port", p)>> : p \in Ports}
    \cup {<<Opt("--baudrate", <<"9", "6", "0", "0">>)>>,
          <<Opt("--port", <<"/", "d", "e", "v", "/", "t", "t", "y", "U", "S", "B", "1">>),
            Opt("--skip-init", <<>>)>>,
          <<Opt("--log", <<"D", "E", "B", "U", "G">>), Opt("--baudrate", <<"5", "6", "K">>)>>,
          <<Opt("--log", <<"d", "e", "b", "u", "g">>)>>,
          <<Opt("--help", <<>>)>>}

\* the command lines tried: global options and actions; the longer action
\* lists are run with the options the session itself looks at
CommandLines ==
    {[opts |-> o, actions |-> q] :
        o \in {<<>>, <<Opt("--skip-init", <<>>)>>},
        q \in SeqsUpTo(MainActions, MaxActions)}
    \cup {[opts |-> o, actions |-> q] :
        o \in GlobalOptions, q \in SeqsUpTo(MainActions, 1)}

----------------------------------------------------------------------------
(* How a call ends or goes on *)

\* the classes caught by `except Exception` (asyncio.CancelledError is a
\* BaseException and is not among them)
IsException(exc) ==
    exc \in {"Exception", "ValueError", "ConnectionError", "NotImplementedError",
             "ZeroDivisionError"}

\* connect: except Exception: await aio.uncancellable(conn.async_close())
connect_except(exc, ser) == IF IsException(exc) THEN "closed" ELSE ser

\* create_client_except with a fault: the exception is passed on without closing
create_client_except_no_close(exc, ser) == ser

\* create_client: except Exception: await aio.uncancellable(client.async_close())
create_client_except(exc, ser) == IF IsException(exc) THEN "closed" ELSE ser

\* async_main_finally with a fault: the client is closed after the loop, not
\* in a finally
async_main_finally_after_loop(exc, ser) == IF exc = "" THEN "closed" ELSE ser

\* async_main: finally: await client.async_close()
async_main_finally(exc, ser) == "closed"

\* an exception leaves the call in flight; `where` is the frame it starts from
Throw(where, exc, msg, byte, lg, cu, ser) ==
    /\ serial' = CASE where = "connect" -> connect_except(exc, ser)
                   [] where = "get_commands" -> create_client_except(exc, ser)
                   [] where = "op" /\ args.via_main -> async_main_finally(exc, ser)
                   [] OTHER -> ser
    /\ pc' = IF where = "op" /\ ~args.via_main /\ exc # "CancelledError"
             THEN "idle" ELSE "done"
    /\ outcome' = [st |-> "raised", exc |-> exc, msg |-> msg, byte |-> byte, val |-> <<>>]
    /\ log' = lg
    /\ cur' = cu
    /\ todo' = <<>>
    /\ loc' = NoLoc
    /\ meth' = ""
    /\ UNCHANGED client

\* Finish with a fault: a call that returns clears the cached capability set
Finish_clearing_cmd_types(val, cu, lg) ==
    /\ pc' = "idle"
    /\ outcome' = [st |-> "ok", exc |-> "", msg |-> "", byte |-> -1, val |-> val]
    /\ log' = lg
    /\ cur' = cu
    /\ todo' = <<>>
    /\ loc' = NoLoc
    /\ meth' = ""
    /\ client' = [client EXCEPT !.cmd_types = {}]
    /\ UNCHANGED serial

\* a Client call returns val
Finish(val, cu, lg) ==
    /\ pc' = "idle"
    /\ outcome' = [st |-> "ok", exc |-> "", msg |-> "", byte |-> -1, val |-> val]
    /\ log' = lg
    /\ cur' = cu
    /\ todo' = <<>>
    /\ loc' = NoLoc
    /\ meth' = ""
    /\ UNCHANGED <<serial, client>>

\* a Connection method is called from frame `where`: run it up to its first await
Enter(where, steps, m, cu, lg) ==
    IF Head(steps).t = "raise"
    THEN Throw(where, Head(steps).tag, "", -1, lg, cu, serial)
    ELSE /\ pc' = where
         /\ meth' = m
         /\ todo' = steps
         /\ loc' = NoLoc
         /\ cur' = cu
         /\ log' = lg
         /\ outcome' = NoOutcome
         /\ UNCHANGED <<serial, client>>

\* progress_cb(current, total): _print_progress divides by total
progress_raises(progress, total) == progress = "print" /\ total = 0

\* progress_cb with a fault: the size of the last segment is reported in
\* place of the bytes done so far
progress_cb_last_segment(cu, done, total) ==
    IF cu.progress = "none" THEN cu
    ELSE [cu EXCEPT !.done = done, !.total = total,
                    !.cbs = Append(@, <<done - cu.done, total>>)]

\* the locals after progress_cb(done, total) was called, when one was given
progress_cb(cu, done, total) ==
    IF cu.progress = "none" THEN cu
    ELSE [cu EXCEPT !.done = done, !.total = total, !.cbs = Append(@, <<done, total>>)]

RECURSIVE chain(_)
\* bytes(itertools.chain.from_iterable(segments))
chain(segments) ==
    IF segments = <<>> THEN <<>> ELSE Head(segments) \o chain(Tail(segments))

----------------------------------------------------------------------------
(* Client operations *)

CapabilityMissing(cu, msg, lg) == Throw("op", "Exception", msg, -1, lg, cu, serial)

\* Client_get_info with a fault: the READ capability is not checked
Client_get_info_without_read_check(c) ==
    IF GET_CHIP_ID \notin client.cmd_types
    THEN CapabilityMissing(c, "get chip id not supported", <<>>)
    ELSE Enter("op", get_chip_id_steps, "get_chip_id", c, <<>>)

\* Client.get_info, up to its first await
Client_get_info(c) ==
    IF GET_CHIP_ID \notin client.cmd_types
    THEN CapabilityMissing(c, "get chip id not supported", <<>>)
    ELSE IF READ \notin client.cmd_types
    THEN CapabilityMissing(c, "read not supported", <<>>)
    ELSE Enter("op", get_chip_id_steps, "get_chip_id", c, <<>>)

\* Client.get_info, after an awaited Connection method has returned
Client_get_info_resume(lc, lg) ==
    CASE cur.stage = 0 ->
            Enter("op", Connection_read(DEVICE_ID_ADDRESS, DEVICE_ID_SIZE), "read",
                  [cur EXCEPT !.stage = 1, !.chip_id = from_bytes_big(lc.data)], lg)
      [] cur.stage = 1 ->
            Enter("op", Connection_read(FLASH_SIZE_ADDRESS, FLASH_SIZE_SIZE), "read",
                  [cur EXCEPT !.stage = 2, !.device_id = lc.data], lg)
      [] cur.stage = 2 ->
            Finish(<<client.version, cur.chip_id, cur.device_id, unpack_H(lc.data) * KIB>>,
                   [cur EXCEPT !.stage = 3], lg)

\* Client.set_protection
Client_set_protection(c) ==
    CASE c.protection = "PROTECT_READ" ->
            IF PROTECT_READ \notin client.cmd_types
            THEN CapabilityMissing(c, "protect read not supported", <<>>)
            ELSE Enter("op", protect_read_steps, "protect_read", c, <<>>)
      [] c.protection = "UNPROTECT_READ" ->
            IF UNPROTECT_READ \notin client.cmd_types
            THEN CapabilityMissing(c, "unprotect read not supported", <<>>)
            ELSE Enter("op", unprotect_read_steps, "unprotect_read", c, <<>>)
      [] c.protection = "PROTECT_WRITE" ->
            IF PROTECT_WRITE \notin client.cmd_types
            THEN CapabilityMissing(c, "protect write not supported", <<>>)
            ELSE Enter("op", protect_write_steps, "protect_write", c, <<>>)
      [] c.protection = "UNPROTECT_WRITE" ->
            IF UNPROTECT_WRITE \notin client.cmd_types
            THEN CapabilityMissing(c, "unprotect write not supported", <<>>)
            ELSE Enter("op", unprotect_write_steps, "unprotect_write", c, <<>>)
      [] OTHER -> Throw("op", "ValueError", "unsupported protection", -1, <<>>, c, serial)

\* Client.read: the head of `while size > 0`
Client_read_loop(cu, lg) ==
    IF cu.size > 0
    THEN Enter("op", Connection_read(cu.address, Min(cu.size, SEGMENT)), "read", cu, lg)
    ELSE Finish(chain(cu.segments), cu, lg)

\* Client.read, up to its first await
Client_read(c) ==
    IF READ \notin client.cmd_types
    THEN CapabilityMissing(c, "read not supported", <<>>)
    ELSE IF progress_raises(c.progress, c.size)
    THEN Throw("op", "ZeroDivisionError", "", -1, <<>>, c, serial)
    ELSE Client_read_loop(progress_cb(c, 0, c.size), <<>>)

\* Client_read_resume with a fault: the start address is not advanced
Client_read_resume_same_address(lc, lg) ==
    LET segment_size == Min(cur.size, SEGMENT)
        cu == [cur EXCEPT !.segments = Append(@, lc.data),
                          !.size = @ - segment_size]
    IN Client_read_loop(progress_cb(cu, cur.done + segment_size, cur.total), lg)

\* Client.read, after the awaited Connection.read has returned a segment
Client_read_resume(lc, lg) ==
    LET segment_size == Min(cur.size, SEGMENT)
        cu == [cur EXCEPT !.segments = Append(@, lc.data),
                          !.address = @ + segment_size,
                          !.size = @ - segment_size]
    IN Client_read_loop(progress_cb(cu, cur.done + segment_size, cur.total), lg)

\* Client_write_loop with a fault: progress is reported when a segment is
\* handed to the connection, before it is written and acknowledged
Client_write_loop_reporting_early(cu, lg) ==
    IF Len(cu.data) > 0
    THEN LET segment_size == Min(Len(cu.data), SEGMENT)
         IN Enter("op", Connection_write(cu.address, SubSeq(cu.data, 1, segment_size)),
                  "write", progress_cb(cu, cu.done + segment_size, cu.total), lg)
    ELSE Finish(<<>>, cu, lg)

\* Client.write: the head of `while data`
Client_write_loop(cu, lg) ==
    IF Len(cu.data) > 0
    THEN LET segment_size == Min(Len(cu.data), SEGMENT)
         IN Enter("op", Connection_write(cu.address, SubSeq(cu.data, 1, segment_size)),
                  "write", cu, lg)
    ELSE Finish(<<>>, cu, lg)

\* Client.write, up to its first await
Client_write(c) ==
    IF WRITE \notin client.cmd_types
    THEN CapabilityMissing(c, "write not supported", <<>>)
    ELSE IF progress_raises(c.progress, Len(c.data))
    THEN Throw("op", "ZeroDivisionError", "", -1, <<>>, c, serial)
    ELSE Client_write_loop(progress_cb(c, 0, Len(c.data)), <<>>)

\* Client_write_resume with a fault: the start address is not advanced
Client_write_resume_same_address(lc, lg) ==
    LET segment_size == Min(Len(cur.data), SEGMENT)
        cu == [cur EXCEPT !.data = SubSeq(@, segment_size + 1, Len(@))]
    IN Client_write_loop(progress_cb(cu, cur.done + segment_size, cur.total), lg)

\* Client.write, after the awaited Connection.write has returned
Client_write_resume(lc, lg) ==
    LET segment_size == Min(Len(cur.data), SEGMENT)
        cu == [cur EXCEPT !.data = SubSeq(@, segment_size + 1, Len(@)),
                          !.address = @ + segment_size]
    IN Client_write_loop(progress_cb(cu, cur.done + segment_size, cur.total), lg)

\* Client.erase
Client_erase(c) ==
    IF ERASE \notin client.cmd_types
    THEN CapabilityMissing(c, "erase not supported", <<>>)
    ELSE Enter("op", Connection_erase(c.all, c.pages), "erase", c, <<>>)

\* Client.execute
Client_execute(c) ==
    IF EXECUTE \notin client.cmd_types
    THEN CapabilityMissing(c, "execute not supported", <<>>)
    ELSE Enter("op", Connection_execute(c.address), "execute", c, <<>>)

\* a caller invokes a Client operation
Start(c) ==
    CASE c.op = "get_info" -> Client_get_info(c)
      [] c.op = "set_protection" -> Client_set_protection(c)
      [] c.op = "read" -> Client_read(c)
      [] c.op = "write" -> Client_write(c)
      [] c.op = "erase" -> Client_erase(c)
      [] c.op = "execute" -> Client_execute(c)
      [] c.op = "Connection.read" ->
            Enter("op", Connection_read(c.address, c.size), "read", c, <<>>)
      [] c.op = "Connection.write" ->
            Enter("op", Connection_write(c.address, c.data), "write", c, <<>>)
      [] c.op = "Connection.erase" ->
            Enter("op", Connection_erase(c.all, c.pages), "erase", c, <<>>)
      [] c.op = "Connection.erase_extended" ->
            Enter("op", erase_extended_steps, "erase_extended", c, <<>>)
      [] c.op = "Connection.protect_write" ->
            Enter("op", protect_write_steps, "protect_write", c, <<>>)
      [] c.op = "Connection.special" ->
            Enter("op", special_steps, "special", c, <<>>)
      [] c.op = "Connection.special_extended" ->
            Enter("op", special_extended_steps, "special_extended", c, <<>>)
      [] c.op = "Connection.check_crc" ->
            Enter("op", check_crc_steps, "check_crc", c, <<>>)

----------------------------------------------------------------------------
(* create_client *)

\* create_client after connect has returned: res = await client._conn.get_commands()
create_client_get_commands(lg) ==
    Enter("get_commands", get_commands_steps, "get_commands", NoCall, lg)

\* create_client after get_commands has returned: the version and the
\* capability set are stored and the client is returned
create_client_return(lc, lg) ==
    /\ client' = [set |-> TRUE, version |-> lc.version,
                  cmd_types |-> {lc.cmds[i] : i \in DOMAIN lc.cmds}]
    /\ pc' = "idle"
    /\ outcome' = [st |-> "ok", exc |-> "", msg |-> "", byte |-> -1, val |-> <<>>]
    /\ log' = lg
    /\ todo' = <<>>
    /\ loc' = NoLoc
    /\ meth' = ""
    /\ UNCHANGED <<serial, cur>>

\* the awaited Connection method has run to its end: its caller goes on
Return(lc, lg) ==
    CASE pc = "connect" -> create_client_get_commands(lg)
      [] pc = "get_commands" -> create_client_return(lc, lg)
      [] pc = "op" /\ cur.op = "get_info" -> Client_get_info_resume(lc, lg)
      [] pc = "op" /\ cur.op = "read" -> Client_read_resume(lc, lg)
      [] pc = "op" /\ cur.op = "write" -> Client_write_resume(lc, lg)
      [] pc = "op" /\ cur.op = "Connection.read" -> Finish(lc.data, cur, lg)
      [] OTHER -> Finish(<<>>, cur, lg)

\* the Connection method in flight goes on after a transport step
Proceed(rest, lc, lg) ==
    IF rest = <<>> THEN Return(lc, lg)
    ELSE IF Head(rest).t = "raise"
    THEN Throw(pc, Head(rest).tag, "", -1, lg, cur, serial)
    ELSE /\ todo' = rest
         /\ loc' = lc
         /\ log' = lg
         /\ UNCHANGED <<serial, pc, meth, cur, outcome, client>>

InFlight == pc \in {"connect", "get_commands", "op"}

----------------------------------------------------------------------------
(* Actions *)

\* main: args = parse_args(sys.argv); an exception ends the program before
\* async_main is run
parse_args ==
    /\ pc = "parse"
    /\ LET r == parse_args_loop(args.argv, args)
       IN IF r.exc = ""
          THEN /\ args' = r.args
               /\ pc' = "start"
               /\ UNCHANGED outcome
          ELSE /\ pc' = "done"
               /\ outcome' = [st |-> "raised", exc |-> r.exc, msg |-> "",
                              byte |-> -1, val |-> <<>>]
               /\ UNCHANGED args
    /\ UNCHANGED <<dev, tasks, link, serial, meth, todo, loc, cur, log, client, queue,
                    calls, nops,
                    unacked>>

\* connect: conn._conn = await serial.create(...), then the code up to the
\* next await (the wake byte, or with skip_init the get-commands frame)
serial_create ==
    /\ pc = "start"
    /\ \/ /\ serial' = "open"
          /\ LET steps == connect_steps(args.skip_init)
             IN IF steps = <<>>
                THEN /\ pc' = "get_commands"
                     /\ meth' = "get_commands"
                     /\ todo' = get_commands_steps
                ELSE /\ pc' = "connect"
                     /\ meth' = "connect"
                     /\ todo' = steps
          /\ UNCHANGED <<loc, cur, log, outcome, client>>
       \/ /\ pc' = "done"
          /\ outcome' = [st |-> "raised", exc |-> "ConnectionError", msg |-> "",
                         byte |-> -1, val |-> <<>>]
          /\ UNCHANGED <<serial, meth, todo, loc, cur, log, client>>
    /\ UNCHANGED <<args, dev, tasks, link, queue, calls, nops, unacked>>

\* await self._conn.write(...): the bytes go out on an open endpoint
conn_write ==
    /\ InFlight /\ todo # <<>> /\ Head(todo).t = "write"
    /\ serial = "open"
    /\ Proceed(Tail(todo), loc, Append(log, WriteEvent(Head(todo))))
    /\ unacked' = unacked + 1
    /\ UNCHANGED <<args, dev, tasks, link, queue, calls, nops>>

\* Connection._receive_ack: one byte is read and judged
conn_receive_ack ==
    /\ InFlight /\ todo # <<>> /\ Head(todo).t = "ack"
    /\ serial = "open"
    /\ \E b \in AckSlotBytes :
          LET res == <<b>>
              lg == Append(log, ReadEvent("ack", res))
              r == receive_ack(res)
          IN IF r.ok THEN Proceed(Tail(todo), loc, lg)
             ELSE Throw(pc, "Exception", r.msg, r.byte, lg, cur, serial)
    /\ unacked' = IF unacked > 0 THEN unacked - 1 ELSE 0
    /\ UNCHANGED <<args, dev, tasks, link, queue, calls, nops>>

\* to_cmd_types with a fault: a byte that is no CmdType value is dropped
to_cmd_types_dropping(res) ==
    [ok |-> TRUE, val |-> SelectSeq(res, LAMBDA b : b \in CmdType)]

\* {CmdType(i) for i in cmd_types_bytes}: CmdType(i) raises ValueError for a
\* byte that is no CmdType value
to_cmd_types(res) ==
    [ok |-> \A i \in DOMAIN res : res[i] \in CmdType, val |-> res]

\* the number of bytes a read step asks for
read_len(step, lc) ==
    CASE step.tag = "cmds" -> lc.count
      [] step.tag = "chip_id" -> lc.count + 1
      [] OTHER -> step.n

\* the locals of the Connection method after a read
after_read(tag, res, lc) ==
    CASE tag = "count" -> [lc EXCEPT !.count = res[1]]
      [] tag = "version" -> [lc EXCEPT !.version = res[1]]
      [] tag = "cmds" -> [lc EXCEPT !.cmds = res]
      [] OTHER -> [lc EXCEPT !.data = res]

\* await self._conn.read(n) of a response, and the code that follows it up to
\* the next await
conn_read ==
    /\ InFlight /\ todo # <<>> /\ Head(todo).t = "read"
    /\ serial = "open"
    /\ LET step == Head(todo)
           res == dev_response(step.tag, read_len(step, loc), log, meth)
           lg == Append(log, ReadEvent("data", res))
           cmd_types == to_cmd_types(res)
       IN IF step.tag = "cmds"
          THEN IF cmd_types.ok
               THEN Proceed(Tail(todo), after_read(step.tag, cmd_types.val, loc), lg)
               ELSE Throw(pc, "ValueError", "not a valid CmdType", -1, lg, cur, serial)
          ELSE Proceed(Tail(todo), after_read(step.tag, res, loc), lg)
    /\ UNCHANGED <<args, dev, tasks, link, queue, calls, nops, unacked>>

\* a write or read on the endpoint raises ConnectionError: the endpoint is
\* no longer open (it broke now, or it was broken or closed before)
transport_fail ==
    /\ InFlight /\ todo # <<>> /\ Head(todo).t \in {"write", "ack", "read"}
    /\ Throw(pc, "ConnectionError", "", -1, log, cur,
             IF serial = "open" THEN "broken" ELSE serial)
    /\ UNCHANGED <<args, dev, tasks, link, queue, calls, nops, unacked>>

\* the task is cancelled while it waits in an await of the call in flight
cancel ==
    /\ InFlight /\ todo # <<>>
    /\ Throw(pc, "CancelledError", "", -1, log, cur, serial)
    /\ UNCHANGED <<args, dev, tasks, link, queue, calls, nops, unacked>>

\* a library caller invokes an operation on the client
lib_call ==
    /\ pc = "idle" /\ ~args.via_main /\ nops < MaxOps
    /\ nops' = nops + 1
    /\ \E c \in LibCalls : Start(c)
    /\ UNCHANGED <<args, dev, tasks, link, queue, calls, unacked>>

\* a library caller invokes a wire operation on the Connection of the session
conn_call ==
    /\ pc = "idle" /\ ~args.via_main /\ nops < MaxOps
    /\ nops' = nops + 1
    /\ \E c \in ConnCalls : Start(c)
    /\ UNCHANGED <<args, dev, tasks, link, queue, calls, unacked>>

\* a library caller closes the client
lib_close ==
    /\ pc = "idle" /\ ~args.via_main
    /\ serial' = "closed"
    /\ pc' = "done"
    /\ UNCHANGED <<args, dev, tasks, link, meth, todo, loc, cur, log, outcome, client,
                    queue, calls, nops,
                    unacked>>

\* async_main: the next action of args.actions is dispatched
async_main_action ==
    /\ pc = "idle" /\ args.via_main /\ calls = <<>> /\ queue # <<>>
    /\ queue' = Tail(queue)
    /\ LET cs == act_calls(Head(queue))
       IN IF cs = <<>>
          THEN UNCHANGED <<serial, pc, meth, todo, loc, cur, log, outcome, client, calls>>
          ELSE calls' = Tail(cs) /\ Start(Head(cs))
    /\ UNCHANGED <<args, dev, tasks, link, nops, unacked>>

\* async_main: the action in progress makes its next Client call
async_main_call ==
    /\ pc = "idle" /\ args.via_main /\ calls # <<>>
    /\ calls' = Tail(calls)
    /\ Start(Head(calls))
    /\ UNCHANGED <<args, dev, tasks, link, queue, nops, unacked>>

\* async_main: all actions are done, finally: await client.async_close()
async_main_close ==
    /\ pc = "idle" /\ args.via_main /\ calls = <<>> /\ queue = <<>>
    /\ serial' = async_main_finally("", serial)
    /\ pc' = "done"
    /\ UNCHANGED <<args, dev, tasks, link, meth, todo, loc, cur, log, outcome, client,
                    queue, calls, nops,
                    unacked>>

----------------------------------------------------------------------------
(* Specification *)

Init ==
    /\ \/ /\ args \in {[DefaultArgs EXCEPT !.skip_init = skip_init] : skip_init \in BOOLEAN}
          /\ queue = <<>>
          /\ pc = "start"
       \/ /\ \E cl \in CommandLines :
                /\ args = [DefaultArgs EXCEPT !.via_main = TRUE, !.argv = cl.opts]
                /\ queue = cl.actions
          /\ pc = "parse"
    /\ dev \in DeviceProfiles
    /\ serial = "none"
    /\ meth = ""
    /\ todo = <<>>
    /\ loc = NoLoc
    /\ cur = NoCall
    /\ log = <<>>
    /\ outcome = NoOutcome
    /\ client = NoClient
    /\ calls = <<>>
    /\ nops = 0
    /\ unacked = 0
    /\ tasks = <<>>
    /\ link = <<>>

Next ==
    \/ parse_args
    \/ serial_create
    \/ conn_write
    \/ conn_receive_ack
    \/ conn_read
    \/ transport_fail
    \/ cancel
    \/ lib_call
    \/ conn_call
    \/ lib_close
    \/ async_main_action
    \/ async_main_call
    \/ async_main_close

Spec == Init /\ [][Next]_vars

----------------------------------------------------------------------------
(* Two tasks on one Client *)

(* Two tasks of one event loop call operations of the same Client, whose     *)
(* session is open.  Neither Client nor Connection holds a lock: a task      *)
(* gives up the event loop at each await on the serial endpoint, and any     *)
(* task that has a step to take may be resumed.  The device answers each     *)
(* frame it receives in the order of arrival; `link` holds the bytes it has  *)
(* sent that no task has read yet, each with the task whose frame caused it. *)

Tasks == {1, 2}

\* the device that reports every implemented command
FullDevice == CHOOSE p \in DeviceProfiles : {READ, WRITE, ERASE, EXECUTE} \subseteq
                                              {p.cmds[i] : i \in DOMAIN p.cmds}

\* the operations the tasks invoke, each of one segment
TaskCalls ==
    {Execute(FLASH_BASE), Erase(TRUE, <<>>), Read(FLASH_BASE, 1, "none"),
     Write(FLASH_BASE, Data(1), "none")}

\* the transport steps of a Client operation of one segment
TaskSteps(c) ==
    CASE c.op = "execute" -> Connection_execute(c.address)
      [] c.op = "erase" -> Connection_erase(c.all, c.pages)
      [] c.op = "read" -> Connection_read(c.address, Min(c.size, SEGMENT))
      [] c.op = "write" -> Connection_write(c.address, SubSeq(c.data, 1, Min(Len(c.data), SEGMENT)))

\* a task that has called its operation and stands at the first await of it
Task(c) == [st |-> "running", call |-> c, todo |-> TaskSteps(c), val |-> <<>>]

\* the task has written a frame of its operation and the operation has not ended
MidOperation(t) ==
    /\ tasks[t].st = "running"
    /\ \E i \in DOMAIN log : log[i].k = "w" /\ log[i].by = t

\* Runnable with a fault: Connection holds a lock from the first frame of an
\* operation to its end
Runnable_locked ==
    IF \E t \in Tasks : MidOperation(t)
    THEN {t \in Tasks : MidOperation(t)}
    ELSE {t \in Tasks : tasks[t].st = "running"}

\* the tasks the event loop may resume: every task that waits in an await
\* of its operation (_send and _receive_ack take no lock)
Runnable == {t \in Tasks : tasks[t].st = "running"}

\* a byte on the link, caused by a frame of task t
Sent(t, byte) == [by |-> t, byte |-> byte]

\* the task after a step of its operation: it goes on, or the operation returns
task_proceed(t, val) ==
    [tasks EXCEPT ![t] = IF Len(@.todo) = 1
                         THEN [@ EXCEPT !.st = "ok", !.todo = <<>>, !.val = val]
                         ELSE [@ EXCEPT !.todo = Tail(@)]]

\* the task after an exception in its operation
task_raise(t) == [tasks EXCEPT ![t] = [@ EXCEPT !.st = "raised", !.todo = <<>>]]

\* await self._conn.write(...) in task t; the device answers the frame with
\* ACK or NACK, and with the data byte after the last frame of a read
task_write(t) ==
    /\ t \in Runnable /\ Head(tasks[t].todo).t = "write"
    /\ serial = "open"
    /\ LET step == Head(tasks[t].todo)
           wants_data == Len(tasks[t].todo) >= 3 /\ tasks[t].todo[3].t = "read"
       IN /\ log' = Append(log, [k |-> "w", slot |-> "frame", body |-> step.body,
                                 bytes |-> step.bytes, by |-> t, from |-> t])
          /\ \E b \in {ACK, NACK} :
                link' = link \o <<Sent(t, b)>>
                        \o (IF wants_data /\ b = ACK
                            THEN <<Sent(t, Mem(tasks[t].call.address))>> ELSE <<>>)
    /\ tasks' = task_proceed(t, <<>>)
    /\ unacked' = unacked + 1
    /\ UNCHANGED <<args, dev, serial, pc, meth, todo, loc, cur, outcome, client, queue,
                    calls, nops>>

\* Connection._receive_ack in task t: the next byte on the link is read and
\* judged, whichever frame caused it
task_receive_ack(t) ==
    /\ t \in Runnable /\ Head(tasks[t].todo).t = "ack"
    /\ serial = "open" /\ link # <<>>
    /\ LET res == <<Head(link).byte>>
       IN /\ log' = Append(log, [k |-> "r", slot |-> "ack", body |-> <<>>, bytes |-> res,
                                 by |-> t, from |-> Head(link).by])
          /\ tasks' = IF receive_ack(res).ok THEN task_proceed(t, <<>>) ELSE task_raise(t)
    /\ link' = Tail(link)
    /\ unacked' = IF unacked > 0 THEN unacked - 1 ELSE 0
    /\ UNCHANGED <<args, dev, serial, pc, meth, todo, loc, cur, outcome, client, queue,
                    calls, nops>>

\* data = await self._conn.read(size) in task t, for the one byte of the segment
task_read(t) ==
    /\ t \in Runnable /\ Head(tasks[t].todo).t = "read"
    /\ serial = "open" /\ link # <<>>
    /\ LET res == <<Head(link).byte>>
       IN /\ log' = Append(log, [k |-> "r", slot |-> "data", body |-> <<>>, bytes |-> res,
                                 by |-> t, from |-> Head(link).by])
          /\ tasks' = task_proceed(t, res)
    /\ link' = Tail(link)
    /\ UNCHANGED <<args, dev, serial, pc, meth, todo, loc, cur, outcome, client, queue,
                    calls, nops, unacked>>

InitTasks ==
    /\ args = DefaultArgs
    /\ dev = FullDevice
    /\ serial = "open"
    /\ pc = "idle"
    /\ meth = ""
    /\ todo = <<>>
    /\ loc = NoLoc
    /\ cur = NoCall
    /\ log = <<>>
    /\ outcome = NoOutcome
    /\ client = [set |-> TRUE, version |-> dev.version,
                 cmd_types |-> {dev.cmds[i] : i \in DOMAIN dev.cmds}]
    /\ queue = <<>>
    /\ calls = <<>>
    /\ nops = 0
    /\ unacked = 0
    /\ tasks \in [Tasks -> {Task(c) : c \in TaskCalls}]
    /\ link = <<>>

NextTasks ==
    \/ \E t \in Tasks : task_write(t)
    \/ \E t \in Tasks : task_receive_ack(t)
    \/ \E t \in Tasks : task_read(t)

SpecTasks == InitTasks /\ [][NextTasks]_vars

----------------------------------------------------------------------------
(* Properties *)

Last(q) == q[Len(q)]

\* the command types a Client call needs in the capability set
Required(c) ==
    CASE c.op = "get_info" -> {GET_CHIP_ID, READ}
      [] c.op = "read" -> {READ}
      [] c.op = "write" -> {WRITE}
      [] c.op = "erase" -> {ERASE}
      [] c.op = "execute" -> {EXECUTE}
      [] c.op = "set_protection" /\ c.protection = "PROTECT_READ" -> {PROTECT_READ}
      [] c.op = "set_protection" /\ c.protection = "UNPROTECT_READ" -> {UNPROTECT_READ}
      [] c.op = "set_protection" /\ c.protection = "PROTECT_WRITE" -> {PROTECT_WRITE}
      [] c.op = "set_protection" /\ c.protection = "UNPROTECT_WRITE" -> {UNPROTECT_WRITE}
      [] OTHER -> {}

\* a Client call has been made on the session and `cur`, `log` and `outcome`
\* are those of that call
Called == client.set /\ cur.op # ""

\* C1: a Client operation whose required command type is absent from the
\* discovered capability set fails, and nothing crosses the transport during
\* the call; get_info needs both GET_CHIP_ID and READ.
C1_CapabilityGating ==
    (Called /\ ~(Required(cur) \subseteq client.cmd_types))
        => /\ outcome.st = "raised"
           /\ outcome.exc = "Exception"
           /\ log = <<>>
           /\ todo = <<>>

\* get_info was called on a device that reports GET_CHIP_ID but not READ
C1_Witness ==
    /\ Called /\ cur.op = "get_info"
    /\ GET_CHIP_ID \in client.cmd_types /\ READ \notin client.cmd_types
    /\ outcome.st = "raised"

\* an event of the log that reads one byte in an ACK slot
IsAckRead(e) == e.k = "r" /\ e.slot = "ack" /\ Len(e.bytes) = 1

C3_NoRetry ==
    \A i \in DOMAIN log :
        (log[i].k = "r" /\ log[i].slot = "ack" /\ log[i].bytes # <<ACK>>)
            => /\ i = Len(log)
               /\ todo = <<>>
               /\ outcome.st = "raised"
               /\ pc \in {"idle", "done"}

\* a write of 300 bytes was refused with NACK in its first segment: the
\* second segment was never sent
C3_Witness ==
    /\ Called /\ cur.op = "write" /\ Len(cur.arg.data) = 300
    /\ Len(cur.data) = 300
    /\ outcome.st = "raised" /\ outcome.msg = "received NACK"
    /\ Last(log).bytes = <<NACK>>
    /\ Len(Writes(log)) = 3

CeilDiv(n, d) == (n + d - 1) \div d

\* C4: a Client.write of N bytes that ends well has issued exactly
\* ceil(N/256) wire write commands; the k-th (from 0) carries
\* data[256k .. min(256k+256, N)) at address + 256k, so between 1 and 256
\* bytes each, contiguous and in increasing address order.
C4_WriteSegmentation ==
    (Called /\ cur.op = "write" /\ outcome.st = "ok")
        => LET N == Len(cur.arg.data)
               K == CeilDiv(N, 256)
               w == Writes(log)
           IN /\ Len(w) = 3 * K
              /\ \A k \in 0..(K - 1) :
                    LET lo == 256 * k
                        hi == Min(lo + 256, N)
                    IN /\ w[3 * k + 1].body = <<WRITE>>
                       /\ Len(w[3 * k + 2].body) = 4
                       /\ from_bytes_big(w[3 * k + 2].body) = cur.arg.address + lo
                       /\ hi - lo \in 1..256
                       /\ w[3 * k + 3].body
                            = <<hi - lo - 1>> \o SubSeq(cur.arg.data, lo + 1, hi)

\* 300 bytes at 0x08000000: 256 bytes at 0x08000000, then 44 at 0x08000100
C4_Witness ==
    /\ Called /\ cur.op = "write" /\ outcome.st = "ok"
    /\ Len(cur.arg.data) = 300 /\ cur.arg.address = 134217728
    /\ Len(Writes(log)) = 6
    /\ Writes(log)[2].body = <<8, 0, 0, 0>> /\ Len(Writes(log)[3].body) = 257
    /\ Writes(log)[5].body = <<8, 0, 1, 0>> /\ Len(Writes(log)[6].body) = 45

\* the bytes a single read of the device memory range [address, address+n) gives
SingleShotRead(address, n) == [i \in 1..n |-> Mem(address + i - 1)]

DataReads(lg) == SelectSeq(lg, LAMBDA e : e.k = "r" /\ e.slot = "data")

\* C5: a Client.read that ends well returns the bytes of the device memory
\* range [address, address+size) in order, whatever the size (0, a multiple of
\* 256 or not), with ceil(size/256) wire reads of at most 256 bytes each at
\* consecutive addresses.
C5_ReadEqualsSingleShot ==
    (Called /\ cur.op = "read" /\ outcome.st = "ok")
        => LET n == IF cur.arg.size > 0 THEN cur.arg.size ELSE 0
               K == CeilDiv(n, 256)
               w == Writes(log)
               r == DataReads(log)
           IN /\ outcome.val = SingleShotRead(cur.arg.address, n)
              /\ Len(w) = 3 * K
              /\ Len(r) = K
              /\ \A k \in 0..(K - 1) :
                    /\ w[3 * k + 1].body = <<READ>>
                    /\ from_bytes_big(w[3 * k + 2].body) = cur.arg.address + 256 * k
                    /\ w[3 * k + 3].body = <<Min(256, n - 256 * k) - 1>>
                    /\ Len(r[k + 1].bytes) = Min(256, n - 256 * k)

\* a read of 300 bytes (not a multiple of 256) has returned
C5_Witness ==
    /\ Called /\ cur.op = "read" /\ outcome.st = "ok"
    /\ cur.arg.size = 300 /\ Len(outcome.val) = 300
    /\ Len(cur.segments) = 2

\* bit k of a byte
Bit(v, k) == (v \div (2 ^ k)) % 2

RECURSIVE ParityByte(_, _)
\* the byte whose bit j, for j <= k, is the parity of bit j over the body
ParityByte(body, k) ==
    IF k < 0 THEN 0
    ELSE ((2 ^ k) * (Cardinality({i \in DOMAIN body : Bit(body[i], k) = 1}) % 2))
         + ParityByte(body, k - 1)

\* C6: a frame is its body, unchanged and in order, followed by exactly one
\* checksum byte: the XOR of all body bytes for a body of two or more bytes,
\* the 8-bit complement of the byte for a body of one byte.
C6_ChecksumLaw ==
    \A i \in DOMAIN log :
        (log[i].k = "w" /\ log[i].slot = "frame")
            => LET body == log[i].body
                   bytes == log[i].bytes
               IN /\ body # <<>>
                  /\ Len(bytes) = Len(body) + 1
                  /\ SubSeq(bytes, 1, Len(body)) = body
                  /\ Last(bytes) = IF Len(body) = 1 THEN 255 - body[1]
                                   ELSE ParityByte(body, 7)

\* a one-byte body and a body of 257 bytes have been framed in one call
C6_Witness ==
    /\ Len(log) >= 5
    /\ log[1].k = "w" /\ Len(log[1].body) = 1
    /\ log[5].k = "w" /\ Len(log[5].body) = 257

\* C7: _receive_ack reads exactly one byte and ends in one of three ways that
\* depend on that byte alone: 0x79 goes on, 0x1F fails as NACK, any other
\* byte fails as an unknown response that carries the byte; the two failures
\* differ.
C7_ReceiveAckOutcomes ==
    \A i \in DOMAIN log :
        (log[i].k = "r" /\ log[i].slot = "ack")
            => /\ Len(log[i].bytes) = 1
               /\ LET b == log[i].bytes[1]
                      failed == /\ i = Len(log)
                                /\ outcome.st = "raised"
                                /\ outcome.exc = "Exception"
                  IN /\ (b = 121) => ~(i = Len(log) /\ outcome.st = "raised"
                                       /\ outcome.msg \in {"received NACK",
                                                           "received unknown response"})
                     /\ (b = 31) => /\ failed
                                    /\ outcome.msg = "received NACK"
                                    /\ outcome.byte = -1
                     /\ (b \notin {121, 31}) => /\ failed
                                                /\ outcome.msg = "received unknown response"
                                                /\ outcome.byte = b

\* the byte 0x00 was read in an ACK slot
C7_Witness ==
    /\ log # <<>> /\ Last(log).k = "r" /\ Last(log).slot = "ack"
    /\ Last(log).bytes = <<0>>
    /\ outcome.msg = "received unknown response" /\ outcome.byte = 0

\* create_client is the call in flight, or the last call that ended: no Client
\* operation has been started yet, and `log` is the log of create_client
InCreateClient == cur.op = ""

\* C8: create_client opens the serial endpoint, then (unless skip_init) writes
\* the wake byte and reads its ACK, then issues get-commands and stores the
\* capability set; when a step after the opening of the endpoint fails
\* (transport error, NACK, unknown byte, unknown opcode), the serial connection
\* is closed before the failure reaches the caller and no client is returned.
C8_SessionOpen ==
    /\ serial = "none" => log = <<>>
    /\ InCreateClient =>
          LET w == Writes(log)
          IN /\ Len(w) <= (IF args.skip_init THEN 1 ELSE 2)
             /\ (~args.skip_init /\ Len(log) >= 1) =>
                    (log[1].k = "w" /\ log[1].bytes = <<127>>)
             /\ (~args.skip_init /\ Len(log) >= 2) => IsAckRead(log[2])
             /\ (~args.skip_init /\ Len(log) >= 3) =>
                    /\ log[2].bytes = <<121>>
                    /\ log[3].k = "w" /\ log[3].bytes = <<0, 255>>
             /\ (args.skip_init /\ Len(log) >= 1) =>
                    (log[1].k = "w" /\ log[1].bytes = <<0, 255>>)
             /\ client.set =>
                    /\ Len(w) = (IF args.skip_init THEN 1 ELSE 2)
                    /\ Last(log).k = "r" /\ Last(log).bytes = <<121>>
                    /\ client.cmd_types = {dev.cmds[i] : i \in DOMAIN dev.cmds}
                    /\ client.version = dev.version
                    /\ pc = "idle" => serial = "open"
    /\ (InCreateClient /\ outcome.st = "raised" /\ serial # "none"
            /\ outcome.exc \in {"Exception", "ValueError", "ConnectionError"})
          => /\ serial = "closed"
             /\ ~client.set
             /\ pc = "done"

\* after the wake handshake the device answered the get-commands frame with
\* NACK: create_client failed with the connection closed
C8_Witness ==
    /\ InCreateClient /\ ~args.skip_init
    /\ Len(Writes(log)) = 2
    /\ outcome.st = "raised" /\ outcome.msg = "received NACK"
    /\ serial = "closed" /\ ~client.set

\* C9: a cancellation that arrives while a call waits in an await (the wake
\* handshake of connect, the get-commands exchange of create_client, an
\* action of async_main) ends with the serial connection closed.
C9_CancellationClosesConnection ==
    (outcome.st = "raised" /\ outcome.exc = "CancelledError") => serial = "closed"

\* C10: the unframed wake byte 0x7F is written at most once per session:
\* without skip_init it is the first write on the connection and no later
\* operation writes it; with skip_init it is never written and the first
\* bytes written are the get-commands frame.
C10_WakeByteOnce ==
    /\ \A i \in DOMAIN log :
          (log[i].k = "w" /\ (log[i].bytes = <<127>> \/ log[i].slot = "raw"))
              => /\ i = 1
                 /\ InCreateClient
                 /\ ~args.skip_init
                 /\ log[i].bytes = <<127>>
    /\ (InCreateClient /\ log # <<>>) =>
          /\ log[1].k = "w"
          /\ log[1].bytes = (IF args.skip_init THEN <<0, 255>> ELSE <<127>>)

\* on a session opened with the wake byte, a later operation has written
\* frames and ended
C10_Witness ==
    /\ ~args.skip_init /\ Called
    /\ outcome.st = "ok" /\ Len(Writes(log)) >= 3

\* the capability set as create_client builds it from the opcodes reported
ReportedCmdTypes == {dev.cmds[i] : i \in DOMAIN dev.cmds}

\* C11: the capability set and the protocol version of a session are
\* assigned exactly once, by create_client when its get-commands exchange
\* has returned; no step of a later operation, ending well or not, changes
\* them.
C11_CapabilitiesAssignedOnce ==
    [][/\ client.set => client' = client
       /\ client' # client
            => /\ pc = "get_commands" /\ pc' = "idle"
               /\ client'.set
               /\ client'.version = dev.version
               /\ client'.cmd_types = ReportedCmdTypes]_vars

\* the second operation on a session has failed after bytes crossed the
\* transport, and the session still holds what the device reported
C11_Witness ==
    /\ Called /\ nops = 2
    /\ outcome.st = "raised" /\ log # <<>>
    /\ client.version = dev.version /\ client.cmd_types = ReportedCmdTypes

\* the call is a wire-level read or write, or an erase with an explicit page
\* list that passed the capability check, and its argument is outside the
\* bounds of the protocol
OutOfBounds(c) ==
    \/ c.op = "Connection.read" /\ c.size \notin 1..256
    \/ c.op = "Connection.write" /\ Len(c.data) \notin 1..256
    \/ /\ c.op = "Connection.erase" \/ (c.op = "erase" /\ ERASE \in client.cmd_types)
       /\ ~c.all /\ Len(c.pages) \notin 1..255

\* C12: an argument outside the protocol bounds is rejected before any byte
\* is written: a wire-level read with a size outside 1..256, a wire-level
\* write with a data length outside 1..256 and an erase with a list of 0 or
\* more than 255 pages write nothing to the transport.
C12_RejectedBeforeAnyWrite ==
    (Called /\ OutOfBounds(cur)) => Writes(log) = <<>>

\* a Client.erase that passed the capability check and the bounds of the page list
EraseSent ==
    /\ Called /\ cur.op = "erase" /\ ERASE \in client.cmd_types
    /\ cur.all \/ Len(cur.pages) \in 1..255

\* C13 as stated: erase(pages=None) that ends well has sent one frame whose
\* body is the ERASE opcode followed by the sentinel 0xFF; with a page list
\* it has sent a frame whose body is count - 1 followed by the pages in the
\* caller's order.
C13_EraseAllInOneFrame ==
    (EraseSent /\ outcome.st = "ok")
        => \E i \in DOMAIN Writes(log) :
              Writes(log)[i].body = IF cur.all THEN <<ERASE, ERASE_ALL>>
                                    ELSE <<Len(cur.pages) - 1>> \o cur.pages

\* the bodies of the two frames of an erase, in the order they are sent
EraseFrames(c) ==
    <<(<<ERASE>>), IF c.all THEN <<ERASE_ALL>> ELSE <<Len(c.pages) - 1>> \o c.pages>>

\* C13: an erase sends two frames, each acknowledged on its own: first the
\* frame of the ERASE opcode alone (0x43 0xBC), then for pages=None the frame
\* of the sentinel alone (0xFF 0x00) and no page count or page index, for
\* a list of 1..255 pages the frame of count - 1 followed by the page
\* indexes in the caller's order; nothing else is written.
C13_EraseFrames ==
    EraseSent
        => LET w == Writes(log)
           IN /\ Len(w) <= 2
              /\ \A i \in DOMAIN w : w[i].body = EraseFrames(cur)[i]
              /\ outcome.st = "ok" => Len(w) = 2
              /\ (Len(w) = 2 /\ cur.all) => w[2].bytes = <<255, 0>>

\* erase(pages=None) has ended well
C13_Witness ==
    /\ EraseSent /\ cur.all /\ outcome.st = "ok"
    /\ Len(log) = 4 /\ log[1].bytes = <<67, 188>> /\ log[3].bytes = <<255, 0>>

\* the call is set_protection(PROTECT_WRITE)
IsProtectWrite(c) == c.op = "set_protection" /\ c.protection = "PROTECT_WRITE"

\* the call has failed with exception class exc and nothing crossed the transport
FailedUnsent(exc) ==
    /\ outcome.st = "raised" /\ outcome.exc = exc
    /\ log = <<>> /\ todo = <<>>

\* C14 as stated: set_protection(PROTECT_WRITE) fails with
\* NotImplementedError and writes no byte whatever the capability set is,
\* and so do erase_extended, protect_write, special, special_extended and
\* check_crc of the Connection.
C14_ProtectWriteAlwaysNotSupported ==
    (Called /\ (IsProtectWrite(cur) \/ cur.op \in Unimplemented))
        => FailedUnsent("NotImplementedError")

\* C14: set_protection(PROTECT_WRITE) always fails and writes no byte: with
\* PROTECT_WRITE in the capability set it fails with NotImplementedError,
\* with PROTECT_WRITE absent it fails with the capability fault
\* (Exception 'protect write not supported'); the wire operations
\* erase_extended, protect_write, special, special_extended and check_crc
\* always fail with NotImplementedError without writing any byte.
C14_ProtectWriteFails ==
    /\ (Called /\ cur.op \in Unimplemented) => FailedUnsent("NotImplementedError")
    /\ (Called /\ IsProtectWrite(cur))
          => IF PROTECT_WRITE \in client.cmd_types
             THEN FailedUnsent("NotImplementedError")
             ELSE FailedUnsent("Exception")
                  /\ outcome.msg = "protect write not supported"

\* set_protection(PROTECT_WRITE) was called on a device that reports PROTECT_WRITE
C14_Witness ==
    /\ Called /\ IsProtectWrite(cur) /\ PROTECT_WRITE \in client.cmd_types
    /\ outcome.exc = "NotImplementedError" /\ log = <<>>

\* C15: with GET_CHIP_ID and READ in the capability set, a get_info that
\* ends well has issued exactly three wire operations in this order:
\* get-chip-id, a read of 12 bytes at 0x1FFFF7E8, a read of 2 bytes at
\* 0x1FFFF7E0; the flash_size returned is (b0 + 256*b1) * 1024 for the two
\* bytes of the last read (0x00 0x04 give 1,048,576), the version is the one
\* stored at session open and the device id is the 12 bytes of the first
\* read unchanged.
C15_GetInfo ==
    (Called /\ cur.op = "get_info" /\ outcome.st = "ok")
        => LET w == Writes(log)
               r == DataReads(log)
               b == r[4].bytes
           IN /\ {GET_CHIP_ID, READ} \subseteq client.cmd_types
              /\ [i \in DOMAIN w |-> w[i].body]
                    = <<(<<GET_CHIP_ID>>),
                        (<<READ>>), (<<31, 255, 247, 232>>), (<<11>>),
                        (<<READ>>), (<<31, 255, 247, 224>>), (<<1>>)>>
              /\ Len(r) = 4
              /\ Len(r[3].bytes) = 12 /\ Len(b) = 2
              /\ outcome.val[1] = client.version /\ client.version = dev.version
              /\ outcome.val[2] = (256 * dev.chip[1]) + dev.chip[2]
              /\ outcome.val[3] = r[3].bytes
              /\ outcome.val[4] = (b[1] + (256 * b[2])) * 1024
              /\ b = <<0, 4>> => outcome.val[4] = 1048576

\* get_info has returned for a device whose flash size register holds 0x00 0x04
C15_Witness ==
    /\ Called /\ cur.op = "get_info" /\ outcome.st = "ok"
    /\ DataReads(log)[4].bytes = <<0, 4>>
    /\ outcome.val[4] = 1048576

\* the position in the log of create_client of the get-commands opcode frame
GetCommandsAt == IF args.skip_init THEN 1 ELSE 3

\* a read of n bytes of response data
IsDataRead(e, n) == e.k = "r" /\ e.slot = "data" /\ Len(e.bytes) = n

\* C16: get-commands reads, after the acknowledged opcode frame, a count
\* byte, a version byte, then exactly count opcode bytes and a final ACK; if
\* a reported opcode byte is none of the 15 defined opcodes the exchange
\* fails at that point, no client is returned and the connection is closed;
\* otherwise the capability set is exactly the set of the reported opcodes.
C16_GetCommands ==
    /\ InCreateClient
          => LET g == GetCommandsAt
                 n == Len(log)
             IN /\ n <= g + 5
                /\ n >= g => log[g].body = <<GET_COMMANDS>> /\ log[g].bytes = <<0, 255>>
                /\ n >= g + 1 => IsAckRead(log[g + 1])
                /\ n >= g + 2 => IsDataRead(log[g + 2], 1)
                /\ n >= g + 3 => IsDataRead(log[g + 3], 1)
                /\ n >= g + 4 => /\ IsDataRead(log[g + 4], log[g + 2].bytes[1])
                                 /\ log[g + 4].bytes = dev.cmds
                /\ n >= g + 5 => IsAckRead(log[g + 5])
                /\ (n = g + 4 /\ ~(ReportedCmdTypes \subseteq CmdType))
                      => /\ outcome.st = "raised" /\ outcome.exc = "ValueError"
                         /\ pc = "done" /\ todo = <<>>
                         /\ serial = "closed"
                /\ client.set
                      => /\ n = g + 5 /\ log[n].bytes = <<ACK>>
                         /\ client.version = log[g + 3].bytes[1]
                         /\ client.cmd_types
                              = {log[g + 4].bytes[i] : i \in 1..log[g + 2].bytes[1]}
    /\ client.set => /\ client.cmd_types = ReportedCmdTypes
                     /\ client.cmd_types \subseteq CmdType

\* the device has reported the byte 0x99 among its opcodes: create_client has
\* failed and the connection is closed
C16_Witness ==
    /\ InCreateClient /\ 153 \in ReportedCmdTypes
    /\ Len(log) = GetCommandsAt + 4
    /\ outcome.exc = "ValueError" /\ serial = "closed" /\ ~client.set

\* the call is a Client.read or Client.write that was given a progress callback
WithProgress == Called /\ cur.op \in {"read", "write"} /\ cur.progress # "none"

\* the total of the transfer in flight, as the caller gave it
Total == IF cur.op = "read" THEN cur.arg.size ELSE Len(cur.arg.data)

\* the sizes of the segments completed so far, in order: the segments a read
\* has received, the acknowledged data frames of a write
Completed ==
    IF cur.op = "read" THEN [i \in DOMAIN cur.segments |-> Len(cur.segments[i])]
    ELSE LET w == Writes(log)
             k == Len(SelectSeq(log, LAMBDA e : e.k = "r" /\ e.bytes = <<ACK>>)) \div 3
         IN [i \in 1..k |-> Len(w[3 * i].body) - 1]

\* C17: a progress callback given to Client.read or Client.write is called
\* with (0, total) when the transfer starts and after each completed segment
\* with (bytes done so far, total): done never decreases, each call adds the
\* size of the segment just completed, done never exceeds total, total is
\* the same in every call, and the last call of a transfer that ends well
\* reports done = total.
C17_Progress ==
    WithProgress
        => /\ cur.cbs # <<>>
                => /\ Len(cur.cbs) = Len(Completed) + 1
                   /\ cur.cbs[1] = <<0, Total>>
                   /\ \A i \in DOMAIN cur.cbs :
                         /\ cur.cbs[i][2] = Total
                         /\ cur.cbs[i][1] <= Total
                         /\ i > 1 => /\ cur.cbs[i][1] >= cur.cbs[i - 1][1]
                                     /\ cur.cbs[i][1] - cur.cbs[i - 1][1] = Completed[i - 1]
           /\ outcome.st = "ok" => cur.cbs # <<>> /\ Last(cur.cbs) = <<Total, Total>>

\* a read of 300 bytes has ended: the callback has seen 0, 256 and 300
C17_Witness ==
    /\ WithProgress /\ cur.op = "read" /\ outcome.st = "ok"
    /\ cur.cbs = <<(<<0, 300>>), (<<256, 300>>), (<<300, 300>>)>>

\* the Client call c is the one that has just been started
Started(c) ==
    /\ cur'.op = c.op /\ cur'.arg = c.arg /\ cur'.protection = c.protection
    /\ cur'.all = c.all /\ cur'.pages = c.pages

\* C18: async_main runs the queued actions in the order given: an action is
\* started only when the one before it has returned, and it is the head of
\* what is left of the queue; as soon as a call of an action fails no later
\* call or action is started; and once create_client has returned the
\* client is closed when async_main ends, whether all actions succeeded, an
\* action failed or the task was cancelled during an action.
C18_ActionsInOrder ==
    /\ [](args.via_main
            => /\ (client.set /\ outcome.st = "raised") => pc = "done"
               /\ (client.set /\ pc = "done") => serial = "closed"
               /\ (pc = "done" /\ outcome.st = "ok") => queue = <<>> /\ calls = <<>>)
    /\ [][args.via_main
            => /\ pc = "done" => UNCHANGED vars
               /\ queue' # queue
                    => /\ pc = "idle" /\ calls = <<>> /\ outcome.st = "ok"
                       /\ queue # <<>> /\ queue' = Tail(queue)
                       /\ LET cs == act_calls(Head(queue))
                          IN IF cs = <<>> THEN UNCHANGED <<cur, calls>>
                             ELSE Started(Head(cs)) /\ calls' = Tail(cs)
               /\ calls' # calls /\ queue' = queue
                    => /\ pc = "idle" /\ outcome.st = "ok"
                       /\ calls # <<>> /\ calls' = Tail(calls)
                       /\ Started(Head(calls))]_vars

\* the first of two actions has failed: the second was never started and
\* the connection is closed
C18_Witness ==
    /\ args.via_main /\ client.set /\ cur.op # ""
    /\ outcome.st = "raised" /\ outcome.exc = "Exception"
    /\ queue # <<>> /\ pc = "done" /\ serial = "closed"

\* the value of the last --port option of the command line, <<>> when none
GivenPort ==
    LET ports == SelectSeq(args.argv, LAMBDA o : o.name = "--port")
    IN IF ports = <<>> THEN <<>> ELSE Last(ports).value

\* C19: parse_args with the global option --port PORT yields Args.port equal
\* to the string PORT, whatever the string is (a device path such as
\* /dev/ttyUSB1 too), and without the option it yields the default
\* /dev/ttyUSB0.
C19_PortIsGivenString ==
    (args.via_main /\ pc # "parse")
        => args.port = PyStr(IF GivenPort = <<>> THEN DefaultArgs.port.s ELSE GivenPort)

\* a wire-level read with a size within the bounds of the protocol
WireRead == Called /\ cur.op = "Connection.read" /\ cur.size \in 1..256

\* C20: a wire-level read(address, size) with 1 <= size <= 256 performs this
\* exchange and nothing else, in this order: the frame (0x11, 0xEE) is
\* written and an ACK read; the 4 address bytes, most significant first,
\* and their XOR are written and an ACK read; the byte size - 1 and its
\* complement are written and an ACK read; then exactly size data bytes are
\* read and returned. No ACK is read after the data.
C20_WireRead ==
    WireRead
        => LET n == Len(log)
           IN /\ n <= 7
              /\ n >= 1 => log[1].k = "w" /\ log[1].bytes = <<17, 238>>
              /\ n >= 2 => IsAckRead(log[2])
              /\ n >= 3 => /\ log[3].k = "w" /\ Len(log[3].bytes) = 5
                           /\ (16777216 * log[3].bytes[1]) + (65536 * log[3].bytes[2])
                                + (256 * log[3].bytes[3]) + log[3].bytes[4] = cur.address
                           /\ log[3].bytes[5] = ParityByte(SubSeq(log[3].bytes, 1, 4), 7)
              /\ n >= 4 => IsAckRead(log[4])
              /\ n >= 5 => /\ log[5].k = "w"
                           /\ log[5].bytes = <<cur.size - 1, 255 - (cur.size - 1)>>
              /\ n >= 6 => IsAckRead(log[6])
              /\ n >= 7 => /\ IsDataRead(log[7], cur.size)
                           /\ outcome.st = "ok" /\ outcome.val = log[7].bytes
                           /\ todo = <<>>
              /\ outcome.st = "ok" => n = 7

\* a wire-level read of 256 bytes has returned
C20_Witness ==
    /\ WireRead /\ cur.size = 256 /\ outcome.st = "ok"
    /\ Len(log) = 7 /\ Len(log[7].bytes) = 256
    /\ log[3].bytes = <<8, 0, 0, 0, 8>> /\ log[5].bytes = <<255, 0>>

\* a wire-level write with a data length within the bounds of the protocol
WireWrite == Called /\ cur.op = "Connection.write" /\ Len(cur.arg.data) \in 1..256

\* C21: a wire-level write(address, data) with 1 <= len(data) <= 256 sends
\* exactly three frames, each followed by the read of one ACK: the opcode
\* frame (0x31, 0xCE); the 4 address bytes, most significant first, with
\* their XOR; and one frame whose body is the byte len(data) - 1 followed by
\* all data bytes in order, closed by one checksum byte that is the XOR of
\* the length byte and every data byte, also when len(data) is 1.
C21_WireWrite ==
    WireWrite
        => LET n == Len(log)
               data == cur.arg.data
               body == <<Len(data) - 1>> \o data
           IN /\ n <= 6
              /\ n >= 1 => log[1].k = "w" /\ log[1].bytes = <<49, 206>>
              /\ n >= 2 => IsAckRead(log[2])
              /\ n >= 3 => /\ log[3].k = "w" /\ Len(log[3].bytes) = 5
                           /\ (16777216 * log[3].bytes[1]) + (65536 * log[3].bytes[2])
                                + (256 * log[3].bytes[3]) + log[3].bytes[4] = cur.address
                           /\ log[3].bytes[5] = ParityByte(SubSeq(log[3].bytes, 1, 4), 7)
              /\ n >= 4 => IsAckRead(log[4])
              /\ n >= 5 => /\ log[5].k = "w"
                           /\ Len(log[5].bytes) = Len(data) + 2
                           /\ SubSeq(log[5].bytes, 1, Len(data) + 1) = body
                           /\ log[5].bytes[Len(data) + 2] = ParityByte(body, 7)
              /\ n >= 6 => IsAckRead(log[6]) /\ todo = <<>>
              /\ outcome.st = "ok" <=> (n = 6 /\ log[6].bytes = <<ACK>>)

\* a wire-level write of one byte has ended well: its data frame is the
\* length byte 0, the data byte 12 and their XOR
C21_Witness ==
    /\ WireWrite /\ Len(cur.arg.data) = 1 /\ outcome.st = "ok"
    /\ Len(log) = 6
    /\ log[3].bytes = <<8, 0, 18, 52, 46>>
    /\ log[5].bytes = <<0, 12, 12>>

\* the opcode of a protection change that is implemented on the wire
ProtectionOpcode(c) ==
    CASE c.protection = "PROTECT_READ" -> PROTECT_READ
      [] c.protection = "UNPROTECT_READ" -> UNPROTECT_READ
      [] c.protection = "UNPROTECT_WRITE" -> UNPROTECT_WRITE

\* a protect-read, unprotect-read or unprotect-write that passed the
\* capability check
ProtectionSent ==
    /\ Called /\ cur.op = "set_protection"
    /\ cur.protection \in {"PROTECT_READ", "UNPROTECT_READ", "UNPROTECT_WRITE"}
    /\ Required(cur) \subseteq client.cmd_types

\* C22 as stated: protect-read, unprotect-read and unprotect-write write one
\* opcode-only frame and complete successfully after the acknowledgment of
\* that frame: one acknowledgment byte is consumed from the link.
C22_CompletesAfterFrameAck ==
    ProtectionSent
        => /\ Len(log) <= 2
           /\ (Len(log) = 2 /\ log[2].bytes = <<ACK>>) => outcome.st = "ok"

\* C22: protect-read, unprotect-read and unprotect-write write exactly one
\* opcode-only frame (opcode plus complement), read the ACK of that frame
\* and then read one further ACK byte; the operation completes successfully
\* only after both were ACK, so it consumes two acknowledgment bytes from
\* the link.
C22_ProtectionTwoAcks ==
    ProtectionSent
        => LET n == Len(log)
               op == ProtectionOpcode(cur)
           IN /\ n <= 3
              /\ n >= 1 => log[1].k = "w" /\ log[1].bytes = <<op, 255 - op>>
              /\ n >= 2 => IsAckRead(log[2])
              /\ n >= 3 => IsAckRead(log[3]) /\ log[2].bytes = <<ACK>>
              /\ (n = 2 /\ log[2].bytes = <<ACK>> /\ outcome.st = "none")
                    => todo = <<AckStep>>
              /\ outcome.st = "ok" <=> (n = 3 /\ log[3].bytes = <<ACK>>)

\* protect-read has ended well after the frame 0x82 0x7D and two ACK bytes
C22_Witness ==
    /\ ProtectionSent /\ cur.protection = "PROTECT_READ" /\ outcome.st = "ok"
    /\ [i \in DOMAIN log |-> log[i].bytes] = <<(<<130, 125>>), (<<ACK>>), (<<ACK>>)>>

\* a Client.read or Client.write that passed the capability check has
\* failed on the transport: NACK, unknown byte, or a failed read or write
ChunkedFailed ==
    /\ Called /\ cur.op \in {"read", "write"}
    /\ Required(cur) \subseteq client.cmd_types
    /\ outcome.st = "raised" /\ outcome.exc \in {"Exception", "ConnectionError"}

\* C23: when a chunked Client.write or Client.read fails at segment k (from
\* 0), the segments 0..k-1 have been transmitted in full, each frame
\* acknowledged; no frame of a segment after k has been written; the last
\* value reported to a progress callback is 256*k; and a read returns no
\* partial buffer.
C23_FailureAtSegment ==
    ChunkedFailed
        => LET k == Len(Completed)
               w == Writes(log)
               opcode == IF cur.op = "read" THEN READ ELSE WRITE
           IN /\ 256 * k < Total
              /\ \A i \in 1..k : Completed[i] = 256
              /\ Len(w) \in (3 * k)..(3 * k + 3)
              /\ \A j \in DOMAIN w :
                    LET seg == (j - 1) \div 3
                        lo == 256 * seg
                        hi == Min(lo + 256, Total)
                    IN /\ seg <= k
                       /\ (j - 1) % 3 = 0 => w[j].body = <<opcode>>
                       /\ (j - 1) % 3 = 1 => w[j].body = pack_I(cur.arg.address + lo)
                       /\ (j - 1) % 3 = 2
                            => w[j].body
                                = IF cur.op = "read" THEN <<hi - lo - 1>>
                                  ELSE <<hi - lo - 1>> \o SubSeq(cur.arg.data, lo + 1, hi)
              /\ \A i \in 1..(Len(log) - 1) :
                    (log[i].k = "w" /\ i < Len(log) - 1)
                        => log[i + 1].bytes = <<ACK>>
              /\ cur.progress # "none" => Last(cur.cbs) = <<256 * k, Total>>
              /\ outcome.val = <<>>

\* a write of 300 bytes was refused with NACK at the data frame of its second
\* segment: the callback has last seen 256
C23_Witness ==
    /\ ChunkedFailed /\ cur.op = "write" /\ Total = 300 /\ cur.progress # "none"
    /\ outcome.msg = "received NACK"
    /\ Len(Completed) = 1 /\ Len(Writes(log)) = 6
    /\ Last(cur.cbs) = <<256, 300>>

\* C24: the session holds no lock: while one task stands at an await of its
\* operation (between two of its frames, or with the ACK of its last frame
\* outstanding), the other task may be resumed; its write of a frame is then
\* enabled, and so is its read of the next byte on the link, whichever
\* task's frame caused that byte.
C24_NoLock ==
    \A t \in Tasks : \A u \in Tasks \ {t} :
        (MidOperation(t) /\ tasks[u].st = "running")
            => /\ Head(tasks[u].todo).t = "write" => ENABLED task_write(u)
               /\ (Head(tasks[u].todo).t = "ack" /\ link # <<>>)
                    => ENABLED task_receive_ack(u)
               /\ (Head(tasks[u].todo).t = "read" /\ link # <<>>)
                    => ENABLED task_read(u)

\* a frame of task 2 was written between two frames of task 1 while the ACK
\* of task 1's frame was outstanding, and a task has consumed a byte caused
\* by a frame of the other task
C24_Witness ==
    /\ tasks # <<>>
    /\ \E i, j, k \in DOMAIN log :
          /\ i < j /\ j < k
          /\ log[i].k = "w" /\ log[i].by = 1
          /\ log[j].k = "w" /\ log[j].by = 2 /\ j = i + 1
          /\ log[k].k = "w" /\ log[k].by = 1
    /\ \E i \in DOMAIN log : log[i].k = "r" /\ log[i].by # log[i].from
    /\ unacked >= 1

\* a Client.read of size 0 or a Client.write of no data
ZeroLength == Called /\ cur.op \in {"read", "write"} /\ Total = 0

\* C25: a zero-length transfer does not touch the wire: with the capability
\* present, Client.read with size 0 returns an empty buffer and Client.write
\* with empty data returns, nothing is written or read on the transport, and
\* a progress callback that was supplied has been called exactly once, with
\* (0, total); with READ or WRITE absent the call fails on the capability
\* check.
C25_ZeroLengthTransfer ==
    ZeroLength
        => IF Required(cur) \subseteq client.cmd_types
           THEN /\ outcome.st = "ok" /\ outcome.val = <<>>
                /\ log = <<>> /\ todo = <<>>
                /\ cur.progress # "none" => cur.cbs = <<(<<0, 0>>)>>
           ELSE /\ outcome.st = "raised" /\ outcome.exc = "Exception"
                /\ log = <<>> /\ todo = <<>>

====
